---- MODULE Spec2Model ----
(***************************************************************************)
(* MB2 Bubble Level (src/src/main.rs).                                     *)
(*                                                                         *)
(* Two parts are modelled:                                                 *)
(*   - the orientation mapper LEDs::{clear, set_mode, round, clamp,        *)
(*     update}, exercised on its own by SpecUpdate;                        *)
(*   - the GPIOTE interrupt handler with its debounce timer, and the main  *)
(*     loop that loads RESOLUTION, polls the sensor, calls update and      *)
(*     shows the grid, composed in Spec.                                   *)
(*                                                                         *)
(* f32 arithmetic.  A pixel coordinate n / divs + 2.0 is kept exactly, as  *)
(* the record [q, r, d] standing for q + r/d with 0 <= r < d.  Every       *)
(* decision the code takes on such a value (<= 0.0, >= 4.0, the            *)
(* truncation of `as i32`, remainder >= 0.5) has the same outcome on the   *)
(* f32 value: inside the window 0 < value < 4 the operand n satisfies      *)
(* |n| < 500, so `n as f32` is exact, the correctly rounded quotient and   *)
(* sum are within 2^-21 of the exact value while every threshold is either *)
(* hit exactly (by a dyadic value f32 represents) or missed by at least    *)
(* 1/250; outside the window rounding is monotone and cannot cross 0 or 4. *)
(* The i32 negation in `-x as f32` is kept with its 32-bit width.          *)
(***************************************************************************)
EXTENDS Integers, Sequences, FiniteSets, TLC

\* ---------------------------------------------------------------- constants

\* const LED_SIZE: usize = 5
LED_SIZE == 5

\* LEDs::COARSE_DIVS, LEDs::FINE_DIVS (mG per LED)
COARSE_DIVS == 250
FINE_DIVS == 25

\* const DEBOUNCE_TIME: u32 = 100 * 1_000_000 / 1000
DEBOUNCE_TIME == (100 * 1000000) \div 1000

\* the range of i32, the type of update's x, y, z
I32MAX == 2147483647
I32MIN == (-I32MAX) - 1

\* enum BubbleResolution { Coarse = 0, Fine = 1 }
BubbleResolution == {"Coarse", "Fine"}

\* mutant of AsU8: the discriminants off by one
AsU8OffByOne(mode) == IF mode = "Coarse" THEN 1 ELSE 2

\* `BubbleResolution::X as u8`
AsU8(mode) == IF mode = "Coarse" THEN 0 ELSE 1

\* impl TryFrom<u8> for BubbleResolution: Err(()) unless the value is 0 | 1
try_from(value) ==
    CASE value = 0 -> "Coarse"
      [] value = 1 -> "Fine"
      [] OTHER -> "Err"

\* ------------------------------------------------------- orientation mapper

Index == 0 .. (LED_SIZE - 1)

\* [[0u8; 5]; 5]
AllOff == [r \in Index |-> [c \in Index |-> 0]]

\* LEDs::new()
LEDsNew == [state |-> AllOff, mode |-> "Coarse"]

\* mutant of clear: the state is left as it was
ClearNothing(state) == state

\* LEDs::clear(&mut self): the state after the call
clear(state) == AllOff

\* mutant of Divs: the two divisors exchanged
DivsExchanged(mode) == IF mode = "Coarse" THEN FINE_DIVS ELSE COARSE_DIVS

\* match self.mode { Coarse => COARSE_DIVS, Fine => FINE_DIVS }
Divs(mode) == IF mode = "Coarse" THEN COARSE_DIVS ELSE FINE_DIVS

\* `-x` on i32 overflows exactly at i32::MIN
NegOverflows(x) == x = I32MIN

\* `-x` on i32 where it does not trap: two's complement wrap-around
WrappingNeg(x) == IF x = I32MIN THEN I32MIN ELSE -x

\* (n as f32) / divs + 2.0, as q + r/d with 0 <= r < d
Pix(n, divs) == [q |-> (n \div divs) + 2, r |-> n % divs, d |-> divs]

\* f32 comparisons of a pixel value with an integer
LeqInt(v, k) == v.q < k \/ (v.q = k /\ v.r = 0)
GeqInt(v, k) == v.q >= k

\* mutant of round: rounds up only above the half step
RoundAboveHalf(number) ==
    IF 2 * number.r > number.d THEN number.q + 1 ELSE number.q

\* LEDs::round(number): `number as i32` truncates toward zero, the remainder
\* number - integer is compared with 0.5
round(number) ==
    LET integer == IF number.q >= 0 \/ number.r = 0 THEN number.q ELSE number.q + 1
        \* remainder * d
        remainder == (number.q - integer) * number.d + number.r
    IN  IF 2 * remainder >= number.d THEN integer + 1 ELSE integer

\* LEDs::clamp(value)
clamp(value) ==
    IF LeqInt(value, 0) THEN 0
    ELSE IF GeqInt(value, LED_SIZE - 1) THEN LED_SIZE - 1
    ELSE round(value)

\* let x_pix = (-x as f32) / divs + 2.0;  let y_pix = (y as f32) / divs + 2.0
x_pix(x, divs) == Pix(WrappingNeg(x), divs)
y_pix(y, divs) == Pix(y, divs)

\* mutant of x_index: the row taken from x_pix
XIndexFromXPix(x, y, divs) == clamp(x_pix(x, divs))

\* let x_index = LEDs::clamp(y_pix);  let y_index = LEDs::clamp(x_pix)
x_index(x, y, divs) == clamp(y_pix(y, divs))
y_index(x, y, divs) == clamp(x_pix(x, divs))

\* self.state[x_index][y_index] = 1
Light(state, row, col) == [state EXCEPT ![row][col] = 1]

\* mutant of FaceDown: z = 0 taken for face-down
FaceDownAtZero(z) == z >= 0

\* if z > 0: the board is upside-down
FaceDown(z) == z > 0

\* LEDs::update where it returns: the state left in self and returned
update(self, x, y, z) ==
    IF FaceDown(z) THEN clear(self.state)
    ELSE LET divs == Divs(self.mode)
         IN  Light(clear(self.state), x_index(x, y, divs), y_index(x, y, divs))

\* LEDs::update reaches the negation `-x` only in the else branch, after
\* self.clear(); with overflow checks (debug profile) it panics there at
\* x = i32::MIN, without them (release profile) it wraps.  The outcomes a
\* build can produce.
UpdateOutcomes(self, x, y, z) ==
    {[panic |-> FALSE, state |-> update(self, x, y, z)]}
    \cup (IF ~FaceDown(z) /\ NegOverflows(x)
          THEN {[panic |-> TRUE, state |-> clear(self.state)]}
          ELSE {})

\* ------------------------------------------------------------------- state

VARIABLES
    RESOLUTION,   \* static RESOLUTION: AtomicU8
    timer,        \* DEBOUNCE_TIMER: ticks left of the cooldown, 0 = ready
    ev,           \* GPIOTE event flags, ev.A = channel0, ev.B = channel1
    unmasked,     \* NVIC: the GPIOTE interrupt is unmasked
    pc,           \* position of main
    leds,         \* let mut leds = LEDs::new()
    sample,       \* (x, y, z) last read from the sensor
    shown,        \* the grid last handed to display.show
    call,         \* ghost: the last call of leds.update
    hist,         \* ghost: the last handler invocations
    everFine,     \* ghost: a debounced press of button B has happened
    prevBoth,     \* ghost: the last handler invocation found both flags pending
    burst,        \* ghost: the handler re-entries that follow an invocation
                  \*        which found both flags pending
    sinceLoad,    \* ghost: RESOLUTION was stored to since main last loaded it
    stale,        \* ghost: renders since the last store that used another
                  \*        resolution than the cell holds
    iter,         \* ghost: what main did in the current loop iteration
    presses       \* ghost: button edges counted (only SpecLive counts them)

vars == <<RESOLUTION, timer, ev, unmasked, pc, leds, sample, shown, call, hist,
          everFine, prevBoth, burst, sinceLoad, stale, iter, presses>>

\* the ghosts of the interrupt handler and of the main loop
ghosts == <<everFine, prevBoth, burst, sinceLoad, stale, iter, presses>>

\* ghost: no loop iteration has begun
NoIter == [loaded |-> "none", fresh |-> FALSE, rendered |-> FALSE]

NoCall == [done |-> FALSE]

\* The statics and main's locals once the peripherals are set up: lines
\* 52 (RESOLUTION), 249-262 (events reset, timer stopped), 277 (leds)
Boot ==
    /\ RESOLUTION = AsU8("Coarse")
    /\ timer = 0
    /\ ev = [A |-> FALSE, B |-> FALSE]
    /\ unmasked = FALSE
    /\ pc = "setup"
    /\ leds = LEDsNew
    /\ shown = AllOff
    /\ call = NoCall
    /\ hist = <<>>
    /\ everFine = FALSE
    /\ prevBoth = FALSE
    /\ burst = "none"
    /\ sinceLoad = FALSE
    /\ stale = 0
    /\ iter = NoIter
    /\ presses = 0

\* No reading has been taken yet
NoSample == <<0, 0, 0>>

Init ==
    /\ Boot
    /\ sample = NoSample

\* ------------------------------------------------ the mapper on its own

\* The operands n at which n / divs + 2.0 is k + 0.5 (the integer just below
\* the half step when divs is odd), with their two neighbours
HalfSteps(divs) ==
    UNION {{t - 1, t, t + 1} :
           t \in {(k - 2) * divs + (divs \div 2) : k \in 0 .. (LED_SIZE - 2)}}

\* The operands at which n / divs + 2.0 meets clamp's edges 0.0 and 4.0
Edges(divs) == {-2 * divs, 2 * divs}

\* Readings of one axis (mG): the ends of i32, rest, one g either way, and
\* the operands around which clamp or round decide, for either resolution
AxisValues ==
    {I32MIN, -I32MAX, I32MAX, 0, -1000, 1000}
    \cup HalfSteps(COARSE_DIVS) \cup Edges(COARSE_DIVS)
    \cup HalfSteps(FINE_DIVS) \cup Edges(FINE_DIVS)

\* Readings of z: the ends of i32, face-up, the boundary, face-down
ZValues == {I32MIN, -1000, 0, 1, 500, I32MAX}

\* A set_mode that leaves the mode as it is
SetModeKeeps(self, mode) == self

\* LEDs::set_mode(&mut self, mode)
set_mode(self, mode) == [self EXCEPT !.mode = mode]

\* The cells of a grid that are lit
LitCells(grid) == {rc \in Index \X Index : grid[rc[1]][rc[2]] = 1}

\* ghost: the grid a call found, against the grid it returns
PrevIs(before, after) ==
    IF before = AllOff THEN "off"
    ELSE IF before = after THEN "same"
    ELSE "changed"

\* One call leds.update(x, y, z) made by main at position pc, which goes on to
\* `next` when the call returns and halts when it panics
DoUpdate(x, y, z, next) ==
    \E o \in UpdateOutcomes(leds, x, y, z) :
        /\ leds' = [leds EXCEPT !.state = o.state]
        /\ call' = [done |-> TRUE, x |-> x, y |-> y, z |-> z,
                    mode |-> leds.mode, panic |-> o.panic,
                    prev |-> PrevIs(leds.state, o.state)]
        /\ pc' = IF o.panic THEN "halt_negate" ELSE next

\* The mapper starts as LEDs::new() leaves it, before any reading
InitUpdate ==
    /\ Boot
    /\ sample \in AxisValues \X AxisValues \X ZValues

\* leds.set_mode(mode) between two calls of update
HarnessSetMode ==
    /\ pc = "setup"
    /\ \E mode \in BubbleResolution : leds' = set_mode(leds, mode)
    /\ UNCHANGED <<RESOLUTION, timer, ev, unmasked, pc, sample, shown, call, hist>>
    /\ UNCHANGED ghosts

\* leds.update(x, y, z) on the reading at hand with one axis read anew
HarnessUpdate ==
    /\ pc = "setup"
    /\ \E i \in 1 .. 3 :
         \E v \in (IF i = 3 THEN ZValues ELSE AxisValues) :
            /\ sample' = [sample EXCEPT ![i] = v]
            /\ DoUpdate(sample'[1], sample'[2], sample'[3], "setup")
    /\ UNCHANGED <<RESOLUTION, timer, ev, unmasked, shown, hist>>
    /\ UNCHANGED ghosts

NextUpdate == HarnessSetMode \/ HarnessUpdate

SpecUpdate == InitUpdate /\ [][NextUpdate]_vars

\* ------------------------------------------- interrupt handler and main

\* Ticks the debounce timer counts down in one step of the model
TickStep == 50000

\* Handler invocations the ghost history keeps
HistLen == 3

\* Readings the sensor delivers (mG): level, tilted by half a Coarse step on
\* both axes, level and face-down
SensorSamples == {<<0, 0, -1000>>, <<-125, 125, -1000>>, <<0, 0, 500>>}

Buttons == {"A", "B"}

\* mutant of debounced: the timer is not consulted
DebouncedAlways(t) == TRUE

\* if debounce_timer.read() == 0
debounced(t) == t = 0

\* mutant of Selects: the two buttons exchanged
SelectsExchanged(b) == IF b = "A" THEN "Fine" ELSE "Coarse"

\* The resolution a button selects: channel0 (A) stores Coarse, channel1 (B)
\* stores Fine
Selects(b) == IF b = "A" THEN "Coarse" ELSE "Fine"

\* A handler that checks channel1 before channel0
ServicedBFirst(e) == IF e.B THEN "B" ELSE "A"

\* if channel0().is_event_triggered() {..} else if channel1().is_event_triggered()
Serviced(e) == IF e.A THEN "A" ELSE "B"

\* ghost: hist with one more invocation, the oldest dropped beyond HistLen
Logged(h, rec) ==
    LET all == Append(h, rec)
    IN  IF Len(all) > HistLen THEN Tail(all) ELSE all

\* The values one invocation stores to RESOLUTION, in order: the if / else if
\* on the two channels reaches at most one store, made only when debounced
Stores(line, valid) == IF valid THEN <<AsU8(Selects(line))>> ELSE <<>>

\* A handler that stores without starting the timer
StartTimerNever(t) == t

\* DEBOUNCE_TIMER after the handler's first with_lock block
StartTimer(t) == IF debounced(t) THEN DEBOUNCE_TIME ELSE t

\* ghost: the burst of re-entries an invocation belongs to.  An invocation that
\* finds both flags pending opens a burst, "ready" or "cooling" as it found
\* the timer; the invocation that leaves no flag pending closes it, as "done"
\* when it was opened "ready"; the next invocation forgets a closed burst.
Burst(b, before, after, t) ==
    LET open == IF b \in {"ready", "cooling"} THEN b
                ELSE IF before.A /\ before.B
                     THEN (IF t = 0 THEN "ready" ELSE "cooling")
                     ELSE "none"
    IN  IF after.A \/ after.B THEN open
        ELSE IF open = "ready" THEN "done" ELSE "none"

\* The GPIOTE interrupt is pending and enabled: it preempts main before its
\* next instruction, and no measurable time passes before the handler runs
IrqPending == unmasked /\ (ev.A \/ ev.B)

\* A hi_to_lo edge on a button sets the event flag of its channel
ButtonEdge ==
    /\ \E b \in Buttons : ev' = [ev EXCEPT ![b] = TRUE]
    /\ UNCHANGED <<RESOLUTION, timer, unmasked, pc, leds, sample, shown, call, hist>>
    /\ UNCHANGED ghosts

\* TIMER1 counts the cooldown down and stops at zero
TimerTick ==
    /\ ~IrqPending
    /\ timer > 0
    /\ timer' = IF timer > TickStep THEN timer - TickStep ELSE 0
    /\ UNCHANGED <<RESOLUTION, ev, unmasked, pc, leds, sample, shown, call, hist>>
    /\ UNCHANGED ghosts

\* fn GPIOTE(): one invocation of the handler, which main cannot interleave
\* with.  The interrupt is taken while it is unmasked and an event flag with
\* its interrupt enabled is set, so a flag left set re-enters the handler.
GPIOTE ==
    /\ IrqPending
    /\ LET valid == debounced(timer)
           started == StartTimer(timer)
           line == Serviced(ev)
           stores == Stores(line, valid)
       IN  /\ timer' = started
           /\ ev' = [ev EXCEPT ![line] = FALSE]
           /\ RESOLUTION' = IF stores # <<>> THEN stores[Len(stores)] ELSE RESOLUTION
           /\ hist' = Logged(hist, [line |-> line,
                                    ready |-> (timer = 0),
                                    stored |-> (stores # <<>>),
                                    stores |-> Len(stores),
                                    cooling |-> (started > 0)])
           /\ everFine' = (everFine \/ (line = "B" /\ timer = 0))
           /\ prevBoth' = (ev.A /\ ev.B)
           /\ burst' = Burst(burst, ev, ev', timer)
           /\ sinceLoad' = (sinceLoad \/ stores # <<>>)
           /\ stale' = IF stores # <<>> THEN 0 ELSE stale
    /\ UNCHANGED <<unmasked, pc, leds, sample, shown, call, iter, presses>>

\* unsafe { NVIC::unmask(Interrupt::GPIOTE) }; NVIC::unpend(Interrupt::GPIOTE)
MainUnmask ==
    /\ pc = "setup"
    /\ unmasked' = TRUE
    /\ pc' = "load"
    /\ UNCHANGED <<RESOLUTION, timer, ev, leds, sample, shown, call, hist>>
    /\ UNCHANGED ghosts

\* A loop that takes the resolution out of the cell, leaving Coarse in it
MainLoadSwaps ==
    /\ ~IrqPending
    /\ pc = "load"
    /\ pc' = "poll"
    /\ leds' = set_mode(leds, try_from(RESOLUTION))
    /\ RESOLUTION' = AsU8("Coarse")
    /\ iter' = [loaded |-> try_from(RESOLUTION), fresh |-> FALSE, rendered |-> FALSE]
    /\ sinceLoad' = FALSE
    /\ UNCHANGED <<timer, ev, unmasked, sample, shown, call, hist>>
    /\ UNCHANGED <<everFine, prevBoth, burst, stale, presses>>

\* leds.set_mode(BubbleResolution::try_from(RESOLUTION.load(Acquire)).unwrap())
MainLoad ==
    /\ ~IrqPending
    /\ pc = "load"
    /\ LET mode == try_from(RESOLUTION)
       IN  IF mode = "Err"
           THEN pc' = "halt_decode" /\ UNCHANGED leds
           ELSE pc' = "poll" /\ leds' = set_mode(leds, mode)
    /\ iter' = [loaded |-> try_from(RESOLUTION), fresh |-> FALSE, rendered |-> FALSE]
    /\ sinceLoad' = FALSE
    /\ UNCHANGED <<RESOLUTION, timer, ev, unmasked, sample, shown, call, hist>>
    /\ UNCHANGED <<everFine, prevBoth, burst, stale, presses>>

\* A loop that renders the sample it has when the sensor has no new one
MainPollStaleRenders ==
    /\ ~IrqPending
    /\ pc = "poll"
    /\ pc' = "update"
    /\ UNCHANGED <<RESOLUTION, timer, ev, unmasked, leds, sample, shown, call, hist>>
    /\ UNCHANGED ghosts

\* if sensor.accel_status().unwrap().xyz_new_data(): no new data
MainPollStale ==
    /\ ~IrqPending
    /\ pc = "poll"
    /\ pc' = "load"
    /\ UNCHANGED <<RESOLUTION, timer, ev, unmasked, leds, sample, shown, call, hist>>
    /\ UNCHANGED ghosts

\* ... new data: let (x, y, z) = sensor.acceleration().unwrap().xyz_mg()
MainPollFresh ==
    /\ ~IrqPending
    /\ pc = "poll"
    /\ sample' \in SensorSamples
    /\ pc' = "update"
    /\ iter' = [iter EXCEPT !.fresh = TRUE]
    /\ UNCHANGED <<RESOLUTION, timer, ev, unmasked, leds, shown, call, hist>>
    /\ UNCHANGED <<everFine, prevBoth, burst, sinceLoad, stale, presses>>

\* either unwrap() on a failed I2C transfer
MainPollError ==
    /\ ~IrqPending
    /\ pc = "poll"
    /\ pc' = "halt_sensor"
    /\ UNCHANGED <<RESOLUTION, timer, ev, unmasked, leds, sample, shown, call, hist>>
    /\ UNCHANGED ghosts

\* leds.update(x, y, z), the argument of display.show
MainUpdate ==
    /\ ~IrqPending
    /\ pc = "update"
    /\ DoUpdate(sample[1], sample[2], sample[3], "show")
    /\ stale' = IF AsU8(leds.mode) # RESOLUTION /\ stale < 2 THEN stale + 1 ELSE stale
    /\ UNCHANGED <<RESOLUTION, timer, ev, unmasked, sample, shown, hist>>
    /\ UNCHANGED <<everFine, prevBoth, burst, sinceLoad, iter, presses>>

\* A loop that goes from the render back to the poll, without a load
MainShowNoLoad ==
    /\ ~IrqPending
    /\ pc = "show"
    /\ shown' = leds.state
    /\ pc' = "poll"
    /\ iter' = [iter EXCEPT !.rendered = TRUE]
    /\ UNCHANGED <<RESOLUTION, timer, ev, unmasked, leds, sample, call, hist>>
    /\ UNCHANGED <<everFine, prevBoth, burst, sinceLoad, stale, presses>>

\* display.show(&mut display_timer, .., DISPLAY_REFRESH_RATE_MS)
MainShow ==
    /\ ~IrqPending
    /\ pc = "show"
    /\ shown' = leds.state
    /\ pc' = "load"
    /\ iter' = [iter EXCEPT !.rendered = TRUE]
    /\ UNCHANGED <<RESOLUTION, timer, ev, unmasked, leds, sample, call, hist>>
    /\ UNCHANGED <<everFine, prevBoth, burst, sinceLoad, stale, presses>>

\* A step of the main loop that leaves it running
MainStep ==
    \/ MainUnmask
    \/ MainLoad
    \/ MainPollStale
    \/ MainPollFresh
    \/ MainUpdate
    \/ MainShow

Next ==
    \/ ButtonEdge
    \/ TimerTick
    \/ GPIOTE
    \/ MainUnmask
    \/ MainLoad
    \/ MainPollStale
    \/ MainPollFresh
    \/ MainPollError
    \/ MainUpdate
    \/ MainShow

Spec == Init /\ [][Next]_vars

\* ------------------------------------ the level left alone in the end

\* The number of button edges after which the buttons are left alone
MaxPresses == 3

\* A hi_to_lo edge on a button, of the finitely many there are
LiveButtonEdge ==
    /\ presses < MaxPresses
    /\ \E b \in Buttons : ev' = [ev EXCEPT ![b] = TRUE]
    /\ presses' = presses + 1
    /\ UNCHANGED <<RESOLUTION, timer, unmasked, pc, leds, sample, shown, call, hist>>
    /\ UNCHANGED <<everFine, prevBoth, burst, sinceLoad, stale, iter>>

\* The sensor accesses succeed and every render returns
NextLive ==
    \/ LiveButtonEdge
    \/ TimerTick
    \/ GPIOTE
    \/ MainUnmask
    \/ MainLoad
    \/ MainPollStale
    \/ MainPollFresh
    \/ MainUpdate
    \/ MainShow

\* A pending interrupt is taken, the timer counts, main keeps stepping, and
\* the sensor, polled again and again, reports a new sample in the end
Fairness ==
    /\ WF_vars(GPIOTE)
    /\ WF_vars(TimerTick)
    /\ WF_vars(MainUnmask)
    /\ WF_vars(MainLoad)
    /\ WF_vars(MainPollStale \/ MainPollFresh)
    /\ SF_vars(MainPollFresh)
    /\ WF_vars(MainUpdate)
    /\ WF_vars(MainShow)

SpecLive == Init /\ [][NextLive]_vars /\ Fairness

\* ------------------------------- properties of the handler and of main

\* The most recent handler invocation
LastRun == hist[Len(hist)]

\* C1: of two handler runs for edges on the same button, the first of which
\* started the debounce timer, only the first stores to RESOLUTION when the
\* second finds the timer still non-zero, and both store when the second
\* finds it back at zero.
C1_DebounceLaw ==
    \A i \in 1 .. (Len(hist) - 1) :
        (hist[i].line = hist[i + 1].line /\ hist[i].ready) =>
            /\ hist[i].stored
            /\ hist[i + 1].stored <=> hist[i + 1].ready

\* C1 witness: three runs for the same button, the second within the
\* cooldown of the first and without a store, the third after it with one
C1_Witness ==
    /\ Len(hist) >= 3
    /\ \E i \in 1 .. (Len(hist) - 2) :
        /\ hist[i].line = hist[i + 1].line /\ hist[i + 1].line = hist[i + 2].line
        /\ hist[i].ready /\ hist[i].stored
        /\ ~hist[i + 1].ready /\ ~hist[i + 1].stored
        /\ hist[i + 2].ready /\ hist[i + 2].stored

\* C4: a handler run that finds the timer Ready and only A's flag pending
\* leaves Coarse (0) in RESOLUTION, one that finds only B's flag pending
\* leaves Fine (1); the serviced flag is cleared.
C4_PublishesButton ==
    [][(GPIOTE /\ timer = 0) =>
          /\ (ev.A /\ ~ev.B) => (RESOLUTION' = 0 /\ ~ev'.A)
          /\ (ev.B /\ ~ev.A) => (RESOLUTION' = 1 /\ ~ev'.B)]_vars

\* C4 witness: the last run serviced B with the timer Ready, Fine is in the
\* cell and no flag is pending
C4_Witness ==
    /\ Len(hist) > 0
    /\ LastRun.line = "B" /\ LastRun.ready /\ LastRun.stored
    /\ RESOLUTION = 1
    /\ ~ev.A /\ ~ev.B

\* C5: RESOLUTION only ever holds 0 (Coarse) or 1 (Fine), so main's decode
\* of the loaded byte never takes the invalid-value halt.
C5_ValidCode ==
    /\ RESOLUTION \in {0, 1}
    /\ pc # "halt_decode"

\* C5 witness: main decoded the byte a press of B after a press of A stored
C5_Witness ==
    /\ Len(hist) >= 2
    /\ LastRun.line = "B" /\ LastRun.stored
    /\ RESOLUTION = 1
    /\ pc = "poll" /\ leds.mode = "Fine"

\* C11: the level begins in Coarse: RESOLUTION holds Coarse (0) as long as
\* GPIOTE is not unmasked, and until the first debounced press of B the cell
\* holds Coarse, the mapper's mode is Coarse and every render divides by 250.
C11_BeginsCoarse ==
    /\ ~unmasked => RESOLUTION = AsU8("Coarse")
    /\ ~everFine =>
          /\ RESOLUTION = AsU8("Coarse")
          /\ leds.mode = "Coarse"
          /\ call.done => (call.mode = "Coarse" /\ Divs(call.mode) = 250)

\* C11 witness: before any debounced press of B, and after a debounced press
\* of A, the sample (-125, 125, -1000) was rendered at (3, 3), its Coarse cell
C11_Witness ==
    /\ ~everFine
    /\ Len(hist) > 0 /\ LastRun.line = "A" /\ LastRun.stored
    /\ iter.rendered /\ call.done
    /\ sample = <<-125, 125, -1000>>
    /\ LitCells(shown) = {<<3, 3>>}

\* C12, as written: a handler run that finds both flags pending clears only
\* A's flag, storing Coarse when the timer is Ready, and leaves B's flag set;
\* the handler run after it services B.
C12_NextEntryServicesB ==
    [][GPIOTE =>
          /\ (ev.A /\ ev.B) =>
                /\ ~ev'.A /\ ev'.B
                /\ RESOLUTION' = IF timer = 0 THEN 0 ELSE RESOLUTION
          /\ prevBoth => (ev.B /\ ~ev'.B)]_vars

\* C12, amended: a handler run that finds both flags pending clears only A's
\* flag, storing Coarse when the timer is Ready, and leaves B's flag set; B's
\* flag stays set, and the interrupt pending, until a handler run services
\* it, which is the first run after it that finds A's flag clear.
C12_PriorityA ==
    [][/\ GPIOTE =>
             /\ (ev.A /\ ev.B) =>
                   /\ ~ev'.A /\ ev'.B
                   /\ RESOLUTION' = IF timer = 0 THEN 0 ELSE RESOLUTION
             /\ prevBoth => (ev.B /\ (~ev'.B <=> ~ev.A))
       /\ prevBoth => IrqPending
       /\ (ev.B /\ ~ev'.B) => GPIOTE]_vars

\* C12 witness: a run found both flags pending with the timer Ready and
\* stored Coarse over Fine, and the run after it serviced B
C12_Witness ==
    /\ Len(hist) >= 3
    /\ hist[Len(hist) - 2].line = "B" /\ hist[Len(hist) - 2].stored
    /\ hist[Len(hist) - 1].line = "A" /\ hist[Len(hist) - 1].stored
    /\ LastRun.line = "B"
    /\ burst = "done"
    /\ RESOLUTION = 0
    /\ ~ev.A /\ ~ev.B

\* C13: a handler run that finds the timer Cooling, whichever button's edge
\* it is for, leaves RESOLUTION as it is and the timer as it is, neither
\* restarted nor extended; it only clears one pending flag, A's if it is
\* pending and B's otherwise.
C13_CoolingOnlyClears ==
    [][(GPIOTE /\ timer # 0) =>
          /\ RESOLUTION' = RESOLUTION
          /\ timer' = timer
          /\ ev' = [ev EXCEPT ![IF ev.A THEN "A" ELSE "B"] = FALSE]
          /\ UNCHANGED <<unmasked, pc, leds, sample, shown, call>>]_vars

\* C13 witness: a press of A started the cooldown and stored Coarse over
\* Fine; a press of B within that cooldown changed neither cell nor timer
C13_Witness ==
    /\ Len(hist) >= 3
    /\ hist[Len(hist) - 2].line = "B" /\ hist[Len(hist) - 2].stored
    /\ hist[Len(hist) - 1].line = "A" /\ hist[Len(hist) - 1].ready
    /\ LastRun.line = "B" /\ ~LastRun.ready /\ ~LastRun.stored
    /\ burst = "none"
    /\ RESOLUTION = 0
    /\ timer = DEBOUNCE_TIME - TickStep

\* C14: a handler run stores to RESOLUTION at most once, and a run that
\* stores found the timer at zero and had started it before the store, so
\* the timer is Cooling at every store.
C14_StoreUnderCooldown ==
    /\ [](\A i \in 1 .. Len(hist) :
            /\ hist[i].stores <= 1
            /\ hist[i].stored => (hist[i].ready /\ hist[i].cooling))
    /\ [][RESOLUTION' # RESOLUTION => (timer = 0 /\ timer' > 0)]_vars

\* C14 witness: the last run stored Fine, once, and the timer is counting
\* the whole cooldown
C14_Witness ==
    /\ Len(hist) > 0
    /\ LastRun.stored /\ LastRun.stores = 1 /\ LastRun.line = "B"
    /\ RESOLUTION = 1
    /\ timer = DEBOUNCE_TIME

\* The grid update returns for a sample when the mode is as given
GridFor(mode, xyz) ==
    update([state |-> AllOff, mode |-> mode], xyz[1], xyz[2], xyz[3])

\* C15: every iteration of the main loop begins by loading RESOLUTION and
\* setting the mapper's mode to it; the grid is shown only in an iteration
\* whose poll reported a fresh sample, and is the grid of that sample under
\* the resolution loaded at the start of the same iteration; an iteration
\* without a fresh sample shows nothing and the loop goes on to the next.
C15_RenderPerIteration ==
    [][/\ (pc' = "poll" /\ pc # "poll") =>
             /\ pc = "load"
             /\ leds'.mode = try_from(RESOLUTION)
             /\ iter'.loaded = try_from(RESOLUTION)
       /\ (pc = "load" /\ pc' # "load") =>
             /\ ~iter'.fresh /\ ~iter'.rendered
             /\ shown' = shown
       /\ (shown' # shown \/ (iter'.rendered /\ ~iter.rendered)) =>
             /\ pc = "show" /\ pc' = "load"
             /\ iter.fresh
             /\ call.mode = iter.loaded
             /\ <<call.x, call.y, call.z>> = sample
             /\ shown' = GridFor(iter.loaded, sample)
       /\ (pc = "poll" /\ pc' = "load") =>
             /\ ~iter.fresh /\ ~iter'.rendered
             /\ shown' = shown /\ sample' = sample /\ call' = call
       /\ (pc \in {"update", "show"}) => iter.fresh]_vars

\* C15 witness: an iteration loaded Fine, got the fresh sample
\* (-125, 125, -1000) and showed its Fine cell (4, 4), while the cell was
\* stored back to Coarse during the iteration
C15_Witness ==
    /\ iter.loaded = "Fine" /\ iter.fresh /\ iter.rendered
    /\ sample = <<-125, 125, -1000>>
    /\ LitCells(shown) = {<<4, 4>>}
    /\ RESOLUTION = 0
    /\ pc = "load"

\* C16: no step of main writes RESOLUTION, the debounce timer or the event
\* flags, and no handler step writes the mapper's mode or grid, the sample
\* or the shown grid: RESOLUTION changes only in handler steps, the mode and
\* the grids only in steps of main.
C16_WriterFrame ==
    [][/\ (MainStep \/ MainPollError) => UNCHANGED <<RESOLUTION, timer, ev>>
       /\ GPIOTE => UNCHANGED <<leds, shown, sample, call, pc>>
       /\ RESOLUTION' # RESOLUTION => GPIOTE
       /\ (leds' # leds \/ shown' # shown) => MainStep]_vars

\* C16 witness: the handler has stored Fine, main has set the mode to Fine
\* and shown a grid, and the handler has since stored Coarse
C16_Witness ==
    /\ Len(hist) >= 2
    /\ hist[Len(hist) - 1].line = "B" /\ hist[Len(hist) - 1].stored
    /\ LastRun.line = "A" /\ LastRun.stored
    /\ RESOLUTION = 0
    /\ leds.mode = "Fine"
    /\ shown # AllOff

\* C17: after a store, at most one render uses a resolution other than the
\* stored one, and an iteration that began after the last store has the
\* stored resolution as its mode and renders with it.
C17_OneStaleRender ==
    /\ stale <= 1
    /\ (pc \in {"poll", "update", "show"} /\ ~sinceLoad) =>
          /\ AsU8(leds.mode) = RESOLUTION
          /\ AsU8(iter.loaded) = RESOLUTION
    /\ (pc = "show" /\ ~sinceLoad) => AsU8(call.mode) = RESOLUTION

\* C17 witness: Fine was stored after the iteration's load of Coarse and the
\* iteration rendered the sample (-125, 125, -1000) at its Coarse cell
C17_Witness ==
    /\ stale = 1 /\ sinceLoad
    /\ pc = "show"
    /\ RESOLUTION = 1
    /\ call.mode = "Coarse"
    /\ sample = <<-125, 125, -1000>>
    /\ LitCells(leds.state) = {<<3, 3>>}

\* C18: when a handler run finds both flags pending and the timer Ready, it
\* stores Coarse, and every re-entry until no flag is pending finds the timer
\* Cooling, stores nothing and only clears a flag, the one servicing B
\* included: when no flag is left pending the cell holds Coarse and Fine has
\* not been stored.
C18_SimultaneousPressIsCoarse ==
    /\ [](burst \in {"ready", "done"} => RESOLUTION = 0)
    /\ [](burst = "ready" => (timer > 0 /\ IrqPending))
    /\ [][(GPIOTE /\ ev.A /\ ev.B /\ timer = 0) =>
              (RESOLUTION' = 0 /\ burst' = "ready" /\ ev'.B)]_vars
    /\ [][(GPIOTE /\ burst = "ready") =>
              /\ timer # 0 /\ timer' = timer
              /\ RESOLUTION' = RESOLUTION
              /\ ~hist'[Len(hist')].stored
              /\ ev' = [ev EXCEPT ![IF ev.A THEN "A" ELSE "B"] = FALSE]
              /\ burst' = IF ev'.A \/ ev'.B THEN "ready" ELSE "done"]_vars

\* C18 witness: with Fine in the cell and as main's mode, both flags were
\* found pending with the timer Ready; A's run stored Coarse, B's run found
\* the timer Cooling and stored nothing, and no flag is pending
C18_Witness ==
    /\ burst = "done"
    /\ Len(hist) >= 3
    /\ hist[Len(hist) - 2].line = "B" /\ hist[Len(hist) - 2].stored
    /\ hist[Len(hist) - 1].line = "A" /\ hist[Len(hist) - 1].ready
    /\ hist[Len(hist) - 1].stored
    /\ LastRun.line = "B" /\ ~LastRun.ready /\ ~LastRun.stored
    /\ ~ev.A /\ ~ev.B
    /\ timer = DEBOUNCE_TIME
    /\ leds.mode = "Fine"
    /\ RESOLUTION = 0

\* C19: when main keeps stepping, every render returns and the sensor
\* reports a fresh sample in the end, then after the last debounced press
\* the mapper's mode becomes the resolution in the cell and stays it, and
\* renders with that resolution keep being made.
C19_EventuallyVisible ==
    /\ <>[](AsU8(leds.mode) = RESOLUTION)
    /\ []<>(pc = "show" /\ call.done /\ AsU8(call.mode) = RESOLUTION)

\* C19 witness: after the last press, of B, stored Fine, one render still
\* used Coarse and a later one has used Fine
C19_Witness ==
    /\ presses > 0
    /\ Len(hist) > 0 /\ LastRun.line = "B" /\ LastRun.stored
    /\ ~ev.A /\ ~ev.B
    /\ RESOLUTION = 1
    /\ stale = 1
    /\ pc = "show" /\ call.mode = "Fine" /\ leds.mode = "Fine"

\* --------------------------------------------- properties of the mapper

\* The last call returned a grid
Returned == call.done /\ ~call.panic

\* The last call returned the grid of a board that is not face-down
ReturnedLit == Returned /\ call.z <= 0

\* -x / divs + 2 and y / divs + 2 over the integers, without the width of
\* i32: the pixel coordinates the specification writes down
MathNegPix(x, divs) ==
    IF x < 0
    THEN [q |-> ((-(x + divs)) \div divs) + 3, r |-> (-(x + divs)) % divs, d |-> divs]
    ELSE [q |-> ((-x) \div divs) + 2, r |-> (-x) % divs, d |-> divs]
MathPix(y, divs) == [q |-> (y \div divs) + 2, r |-> y % divs, d |-> divs]

\* Round half up, then clamp to [0, 4]: a coordinate <= 0 gives 0, one >= 4
\* gives 4
MathIndex(v) ==
    IF v.q < 0 \/ (v.q = 0 /\ v.r = 0) THEN 0
    ELSE IF v.q >= 4 THEN 4
    ELSE IF 2 * v.r >= v.d THEN v.q + 1 ELSE v.q

MathDivisor(mode) == IF mode = "Coarse" THEN 250 ELSE 25

\* C2: update is total over all i32 inputs: for every x, y, every z <= 0 and
\* either resolution it completes without arithmetic overflow or panic and
\* returns a grid with exactly one lit cell, whose indices lie in [0, 4].
C2_UpdateTotal ==
    (call.done /\ call.z <= 0) =>
        /\ ~call.panic
        /\ ~NegOverflows(call.x)
        /\ Cardinality(LitCells(leds.state)) = 1

\* C2, away from the one input where the negation overflows
C2_TotalButMin ==
    (call.done /\ call.z <= 0 /\ call.x # I32MIN) =>
        /\ ~call.panic
        /\ Cardinality(LitCells(leds.state)) = 1

\* C3: for every sample with z <= 0, update lights the cell (row, col) with
\* col the clamped, rounded value of -x / divisor + 2 and row that of
\* y / divisor + 2, divisor 250 in Coarse and 25 in Fine; (0, 0, -1000) in
\* Coarse lights (2, 2), (-500, 0, -1000) in Coarse lights (2, 4) and
\* (0, 1000, -1000) in Fine lights a cell in row 4.
C3_LitCell ==
    ReturnedLit =>
        LET d == MathDivisor(call.mode)
            row == MathIndex(MathPix(call.y, d))
            col == MathIndex(MathNegPix(call.x, d))
        IN  /\ LitCells(leds.state) = {<<row, col>>}
            /\ (call.mode = "Coarse" /\ call.x = 0 /\ call.y = 0 /\ call.z = -1000)
                  => LitCells(leds.state) = {<<2, 2>>}
            /\ (call.mode = "Coarse" /\ call.x = -500 /\ call.y = 0 /\ call.z = -1000)
                  => LitCells(leds.state) = {<<2, 4>>}
            /\ (call.mode = "Fine" /\ call.x = 0 /\ call.y = 1000 /\ call.z = -1000)
                  => \E c \in Index : LitCells(leds.state) = {<<4, c>>}

\* C3, away from the one input where the negation overflows
C3_LitCellButMin == (call.done /\ call.x # I32MIN) => C3_LitCell

\* C6: after any sequence of update calls with arbitrary samples and mode
\* changes in between, the grid each call returns is all-unlit or has exactly
\* one lit cell; a cell lit by an earlier call and not by this one is unlit.
C6_AtMostOneLit ==
    /\ Cardinality(LitCells(leds.state)) <= 1
    /\ Returned =>
          /\ LitCells(leds.state) \subseteq
                {<<x_index(call.x, call.y, Divs(call.mode)),
                   y_index(call.x, call.y, Divs(call.mode))>>}
          /\ call.z > 0 => LitCells(leds.state) = {}

\* C6 witness: a call found another cell lit and returned exactly one
C6_Witness ==
    /\ Returned
    /\ call.prev = "changed"
    /\ Cardinality(LitCells(leds.state)) = 1

\* C7: for every sample with z > 0 update returns the all-unlit grid,
\* whatever x, y, the resolution and the grid the previous call left; z = 0
\* is not face-down: the grid update returns for it has one lit cell.
C7_FaceDownDark ==
    call.done =>
        /\ call.z > 0 => (~call.panic /\ leds.state = AllOff)
        /\ (call.z = 0 /\ ~call.panic) => Cardinality(LitCells(leds.state)) = 1

\* C7 witness: a face-down call at the end of i32 that found a cell lit
C7_Witness ==
    /\ Returned
    /\ call.z > 0 /\ call.x = I32MIN /\ call.mode = "Fine"
    /\ call.prev = "changed"
    /\ leds.state = AllOff

\* A pixel coordinate that is exactly k + 0.5
IsHalf(v) == 2 * v.r = v.d

\* C8: a pixel coordinate that is exactly k + 0.5 before clamping (0.5, 1.5,
\* 2.5, 3.5) gives index k + 1, never k; x = -125 or y = 125 in Coarse (2.5)
\* gives index 3.
C8_RoundHalfUp ==
    ReturnedLit =>
        LET d == MathDivisor(call.mode)
            xp == MathNegPix(call.x, d)
            yp == MathPix(call.y, d)
        IN  /\ (IsHalf(xp) /\ xp.q \in 0 .. 3) =>
                  \A rc \in LitCells(leds.state) : rc[2] = xp.q + 1
            /\ (IsHalf(yp) /\ yp.q \in 0 .. 3) =>
                  \A rc \in LitCells(leds.state) : rc[1] = yp.q + 1
            /\ (call.mode = "Coarse" /\ call.x = -125 /\ call.y = 125) =>
                  LitCells(leds.state) = {<<3, 3>>}

\* C8 witness: coordinates 0.5 and 3.5 were rounded to 1 and 4
C8_Witness ==
    /\ ReturnedLit
    /\ call.mode = "Coarse" /\ call.x = 375 /\ call.y = 375
    /\ LitCells(leds.state) = {<<4, 1>>}

\* The cell update lights for the last call's sample in a given mode
CellIn(mode) ==
    CHOOSE rc \in Index \X Index :
        update([leds EXCEPT !.mode = mode], call.x, call.y, call.z)[rc[1]][rc[2]] = 1

\* Index b is at least as far from the centre 2 as index a, on a's side
Beyond(a, b) == (a > 2 => b >= a) /\ (a < 2 => b <= a)

\* C9: for every sample with z <= 0 the cell lit in Fine mode is at least as
\* far from the centre index 2 as the cell lit in Coarse mode, on each axis
\* and in the same direction.
C9_FineBeyondCoarse ==
    ReturnedLit =>
        /\ LitCells(leds.state) = {CellIn(call.mode)}
        /\ Beyond(CellIn("Coarse")[1], CellIn("Fine")[1])
        /\ Beyond(CellIn("Coarse")[2], CellIn("Fine")[2])

\* C9 witness: a Fine call lit an edge while Coarse stays at the centre
C9_Witness ==
    /\ ReturnedLit
    /\ call.mode = "Fine"
    /\ CellIn("Coarse") = <<2, 2>>
    /\ LitCells(leds.state) = {<<4, 0>>}

\* C10 as stated: the row index of the lit cell derives from the x-pixel
\* coordinate (-x / divisor + 2) and the column index from the y-pixel
\* coordinate (y / divisor + 2).
C10_RowFromX ==
    ReturnedLit =>
        LitCells(leds.state) =
            {<<clamp(x_pix(call.x, Divs(call.mode))),
               clamp(y_pix(call.y, Divs(call.mode)))>>}

\* C10 amended: the row index of the lit cell (the variable x_index) derives
\* from the y-pixel coordinate and the column index (y_index) from the
\* x-pixel coordinate.
C10_RowFromY ==
    ReturnedLit =>
        LitCells(leds.state) =
            {<<clamp(y_pix(call.y, Divs(call.mode))),
               clamp(x_pix(call.x, Divs(call.mode)))>>}

\* C10 witness: a tilt along x alone moved the lit cell along its row
C10_Witness ==
    /\ ReturnedLit
    /\ call.mode = "Coarse" /\ call.x = -500 /\ call.y = 0
    /\ LitCells(leds.state) = {<<2, 4>>}

====
